---- MODULE Spec2Model ----
(***************************************************************************)
(* Live quiz sessions (app/routes/live.py), item scheduling               *)
(* (app/routes/decks.py) and deck invitations (app/routes/teacher.py)      *)
(* over the document store.                                                *)
(* Every request handler is a coroutine: it runs without interruption      *)
(* between two awaits, and every await on the store (get, find_one,        *)
(* insert, save) is a point where other requests run.  A handler is        *)
(* therefore one action per await, the code between two awaits being part  *)
(* of the action of the await that precedes it.  save() writes the whole   *)
(* document the handler holds, insert() adds a document with a fresh id.   *)
(*                                                                         *)
(* RosterSpec, CodeSpec and AnswerSpec handle the requests one after the   *)
(* other (one request place); ConcSpec lets two submissions interleave at  *)
(* their awaits.  Times (started_at, completed_at) are null or stamped;    *)
(* their values, and joined_at, are not modelled.                          *)
(*                                                                         *)
(* StudySpec and EaseSpec handle the study requests one after the other,   *)
(* each handler being one action.  InviteSpec lets the redemptions of two  *)
(* students interleave at their awaits, AccessSpec the teacher's requests  *)
(* for invitations and one student's redemptions; the clock counts days.   *)
(* LobbySpec lets two joins and the teacher's requests interleave.         *)
(*                                                                         *)
(* ListSpec, DueSpec and DeckSpec handle the requests that list, show and  *)
(* update a deck one after the other, each handler being one action.       *)
(***************************************************************************)
EXTENDS Integers, Sequences, FiniteSets, TLC

\* ---------------------------------------------------------------- bounds
MaxSessions == 2    \* session ids in requests; sessions created in CodeSpec
MaxResults == 2     \* result documents ever inserted
MaxAnswers == 2     \* answers ever accepted, over all results
MaxReviews == 2     \* card reviews ever inserted, in StudySpec
MaxEaseReviews == 7 \* card reviews ever inserted, in EaseSpec
MaxInvitations == 2 \* invitations ever inserted, in AccessSpec
MaxClock == 2       \* days that pass
MaxViews == 1       \* views of a deck that are counted

\* ---------------------------------------------------------------- inputs
Reqs == {"r1", "r2"}                 \* requests handled at the same time
Teachers == {"t1", "t2"}
Students == {"s1"}
Users == Teachers \cup Students
Decks == {"d1"}
DeckIds == Decks \cup {"d0"}         \* "d0": an id of no deck
SessionCodes == {"111111", "222222"}
Nicknames == {"A", "B", "C"}
CardIds == {"c1"}
MaxParticipantsInputs == {-1, 0, 1, 2}   \* CreateSessionRequest.max_participants: any int
\* SubmitAnswerRequest <<is_correct, time_taken>>: any bool, any int
AnswerInputs == {<<TRUE, -1>>, <<TRUE, 5>>, <<TRUE, 60>>, <<FALSE, 5>>}

Role(u) == IF u \in Teachers THEN "teacher" ELSE "student"

\* ----------------------------------------------------------------- state
VARIABLES
    sessions,   \* collection live_sessions: sequence of documents, id = index
    results,    \* collection live_session_results: sequence of documents, id = index
    req,        \* per request: the handler's position, arguments, locals and response
    decks,      \* collection decks: sequence of documents, id = index
    cards,      \* collection content_items: sequence of documents, id = index
    reviews,    \* collection card_reviews: number of documents and the last one
    stats,      \* collection daily_stats: sequence of documents, id = index
    invitations,    \* collection deck_invitations: sequence of documents, id = index
    accesses,       \* collection student_deck_access: sequence of documents, id = index
    now             \* the day, datetime.now()

studyVars == <<decks, cards, reviews, stats>>
inviteVars == <<invitations, accesses, now>>
notLive == <<studyVars, inviteVars>>   \* what the live-session handlers never touch
liveVars == <<sessions, results>>
vars == <<sessions, results, req, decks, cards, reviews, stats, invitations, accesses, now>>

NoDoc == [id |-> 0]
NoResp ==
    [http |-> 0, status |-> "none", score |-> 0, session_id |-> 0, interval |-> 0,
     listing |-> <<>>]

IdleReq ==
    [op |-> "none", pc |-> "idle", caller |-> "none", sid |-> 0, code |-> "none",
     nickname |-> "none", card_id |-> "none", is_correct |-> FALSE, time_taken |-> 0,
     is_new |-> FALSE, session |-> NoDoc, result |-> NoDoc, resp |-> NoResp,
     item |-> 0, deck |-> 0, quality |-> 0,
     max_uses |-> <<>>, expires_in_days |-> <<>>, invitation |-> NoDoc,
     invitation_id |-> 0]

Free(r) == req[r].pc \in {"idle", "done"}

Resp(http, status, score, session_id) ==
    [http |-> http, status |-> status, score |-> score, session_id |-> session_id,
     interval |-> 0, listing |-> <<>>]

\* The handler has returned (or raised): the documents it held are gone; the
\* request and its response stay until the next request takes the place.
Done(a, resp) ==
    [a EXCEPT !.pc = "done", !.session = NoDoc, !.result = NoDoc, !.invitation = NoDoc,
              !.resp = resp]

SessionIds == 1..MaxSessions
Exists(sid) == sid \in 1..Len(sessions)

\* Document.save(): the stored document is replaced by the one the handler holds.
SaveSession(doc) == [sessions EXCEPT ![doc.id] = doc]
SaveResult(doc) == [results EXCEPT ![doc.id] = doc]

\* card_reviews is only ever inserted into, and no handler here reads it: the
\* model keeps the number of its documents and the last one inserted.
NoReviews == [count |-> 0, last |-> NoDoc]

Init ==
    /\ sessions = <<>>
    /\ results = <<>>
    /\ req = [r \in Reqs |-> IdleReq]
    /\ decks = <<>>
    /\ cards = <<>>
    /\ reviews = NoReviews
    /\ stats = <<>>
    /\ invitations = <<>>
    /\ accesses = <<>>
    /\ now = 0

\* ---------------------------------------------------------- create_session
NewSession(teacher, deck, code, maxp) ==
    [id |-> Len(sessions) + 1, deck_id |-> deck, teacher_id |-> teacher,
     session_code |-> code, max_participants |-> maxp, status |-> "waiting",
     participants |-> <<>>, started_at |-> "None", completed_at |-> "None"]

create_session(r, u, deck, code, maxp) ==
    /\ Free(r)
    /\ LET a == [IdleReq EXCEPT !.op = "create_session", !.caller = u] IN
       IF Role(u) # "teacher"
       THEN /\ req' = [req EXCEPT ![r] = Done(a, Resp(403, "error", 0, 0))]
            /\ UNCHANGED <<sessions, results, notLive>>
       ELSE IF deck \notin Decks
       THEN /\ req' = [req EXCEPT ![r] = Done(a, Resp(404, "error", 0, 0))]
            /\ UNCHANGED <<sessions, results, notLive>>
       ELSE /\ sessions' = Append(sessions, NewSession(u, deck, code, maxp))
            /\ req' = [req EXCEPT ![r] = Done(a, Resp(200, "created", 0, Len(sessions) + 1))]
            /\ UNCHANGED <<results, notLive>>

\* ------------------------------------- start / finish / review (teacher)
\* Mutant: the ownership half of the check is dropped.
NotOwnedMissingOnly(sid, u) == ~Exists(sid)

\* `if not session or session.teacher_id != current_user.id`
NotOwned(sid, u) == ~Exists(sid) \/ sessions[sid].teacher_id # u

StartedDoc(s) == [s EXCEPT !.status = "active", !.started_at = "now"]
FinishedDoc(s) == [s EXCEPT !.status = "completed", !.completed_at = "now"]
ReviewDoc(s) == [s EXCEPT !.status = "review"]

\* LiveSession.get, the ownership check and the assignments up to save():
\* the request as it stands at the save (or at the 404).
TeacherGot(op, sid, u) ==
    LET a == [IdleReq EXCEPT !.op = op, !.caller = u, !.sid = sid] IN
    IF NotOwned(sid, u)
    THEN Done(a, Resp(404, "error", 0, 0))
    ELSE [a EXCEPT !.pc = "save",
                   !.session = CASE op = "start_session" -> StartedDoc(sessions[sid])
                                 [] op = "finish_session" -> FinishedDoc(sessions[sid])
                                 [] op = "review_session" -> ReviewDoc(sessions[sid])]

start_session_get(r, sid, u) ==
    /\ Free(r)
    /\ req' = [req EXCEPT ![r] = TeacherGot("start_session", sid, u)]
    /\ UNCHANGED <<sessions, results, notLive>>

start_session_save(r) ==
    /\ req[r].op = "start_session"
    /\ req[r].pc = "save"
    /\ sessions' = SaveSession(req[r].session)
    /\ req' = [req EXCEPT ![r] = Done(req[r], Resp(200, "active", 0, req[r].sid))]
    /\ UNCHANGED <<results, notLive>>

finish_session_get(r, sid, u) ==
    /\ Free(r)
    /\ req' = [req EXCEPT ![r] = TeacherGot("finish_session", sid, u)]
    /\ UNCHANGED <<sessions, results, notLive>>

finish_session_save(r) ==
    /\ req[r].op = "finish_session"
    /\ req[r].pc = "save"
    /\ sessions' = SaveSession(req[r].session)
    /\ req' = [req EXCEPT ![r] = Done(req[r], Resp(200, "completed", 0, req[r].sid))]
    /\ UNCHANGED <<results, notLive>>

review_session_get(r, sid, u) ==
    /\ Free(r)
    /\ req' = [req EXCEPT ![r] = TeacherGot("review_session", sid, u)]
    /\ UNCHANGED <<sessions, results, notLive>>

review_session_save(r) ==
    /\ req[r].op = "review_session"
    /\ req[r].pc = "save"
    /\ sessions' = SaveSession(req[r].session)
    /\ req' = [req EXCEPT ![r] = Done(req[r], Resp(200, "review", 0, req[r].sid))]
    /\ UNCHANGED <<results, notLive>>

\* ------------------------------------------------------------ join_session
\* find_one(session_code == code, status == status): the documents it may return.
FindSessions(code, status) ==
    {i \in 1..Len(sessions) :
        sessions[i].session_code = code /\ sessions[i].status = status}

\* Mutant: the lobby lookup asks for the active status.
JoinFirstStatusActive == "active"

JoinFirstStatus == "waiting"
JoinSecondStatus == "active"

\* Mutant: only the first roster entry is compared.
IsNewNicknameFirstOnly(s, nickname) ==
    ~(Len(s.participants) > 0 /\ s.participants[1].nickname = nickname)

\* `not any(p['nickname'] == request.nickname for p in session.participants)`
IsNewNickname(s, nickname) ==
    ~\E k \in 1..Len(s.participants) : s.participants[k].nickname = nickname

\* Mutant: > for >=.
RoomFullOffByOne(s) == Len(s.participants) > s.max_participants

\* `len(session.participants) >= session.max_participants`
RoomFull(s) == Len(s.participants) >= s.max_participants

\* joined_at is the time of the call; its value is not modelled.
Joined(s, nickname) == [s EXCEPT !.participants = Append(@, [nickname |-> nickname])]

\* From the session found to the next await (save) or to the response.
JoinFound(r, a, s) ==
    LET b == [a EXCEPT !.sid = s.id, !.is_new = IsNewNickname(s, a.nickname)] IN
    IF b.is_new
    THEN IF RoomFull(s)
         THEN req' = [req EXCEPT ![r] = Done(b, Resp(400, "error", 0, 0))]
         ELSE req' = [req EXCEPT ![r] =
                         [b EXCEPT !.pc = "save", !.session = Joined(s, a.nickname)]]
    ELSE req' = [req EXCEPT ![r] = Done(b, Resp(200, "Joined", 0, s.id))]

join_session_find_waiting(r, code, nickname) ==
    /\ Free(r)
    /\ LET a == [IdleReq EXCEPT !.op = "join_session", !.code = code, !.nickname = nickname] IN
       IF FindSessions(code, JoinFirstStatus) # {}
       THEN \E i \in FindSessions(code, JoinFirstStatus) : JoinFound(r, a, sessions[i])
       ELSE req' = [req EXCEPT ![r] = [a EXCEPT !.pc = "find_active"]]
    /\ UNCHANGED <<sessions, results, notLive>>

join_session_find_active(r) ==
    /\ req[r].op = "join_session"
    /\ req[r].pc = "find_active"
    /\ IF FindSessions(req[r].code, JoinSecondStatus) # {}
       THEN \E i \in FindSessions(req[r].code, JoinSecondStatus) :
                JoinFound(r, req[r], sessions[i])
       ELSE req' = [req EXCEPT ![r] = Done(req[r], Resp(404, "error", 0, 0))]
    /\ UNCHANGED <<sessions, results, notLive>>

join_session_save(r) ==
    /\ req[r].op = "join_session"
    /\ req[r].pc = "save"
    /\ sessions' = SaveSession(req[r].session)
    /\ req' = [req EXCEPT ![r] = Done(req[r], Resp(200, "Joined", 0, req[r].sid))]
    /\ UNCHANGED <<results, notLive>>

\* ------------------------------------------------------- submit_live_answer
\* Mutant: answers are taken during review as well.
AcceptsAnswersInReview(s) == s.status \in {"active", "review"}

\* `session.status != "active"` negated: the answer is taken.
AcceptsAnswers(s) == s.status = "active"

\* Mutant: the floor is missing.
ScoreAddNoFloor(time_taken) == 1000 - (time_taken * 10)

ScoreAddRising(time_taken) ==
    IF 1000 + (time_taken * 10) > 500 THEN 1000 + (time_taken * 10) ELSE 500

\* `max(500, 1000 - (data.time_taken * 10))`
ScoreAdd(time_taken) ==
    IF 1000 - (time_taken * 10) > 500 THEN 1000 - (time_taken * 10) ELSE 500

\* find_one(session_id == sid, participant_nickname == nickname)
FindResults(sid, nickname) ==
    {j \in 1..Len(results) :
        results[j].session_id = sid /\ results[j].participant_nickname = nickname}

NewResult(sid, nickname) ==
    [id |-> Len(results) + 1, session_id |-> sid, participant_nickname |-> nickname,
     score |-> 0, correct_count |-> 0, incorrect_count |-> 0, answers |-> <<>>]

AnsweredBothCounters(res, a) ==
    [res EXCEPT
        !.answers = Append(@, [card_id |-> a.card_id, is_correct |-> a.is_correct,
                               time_taken |-> a.time_taken]),
        !.correct_count = IF a.is_correct THEN @ + 1 ELSE @,
        !.score = IF a.is_correct THEN @ + ScoreAdd(a.time_taken) ELSE @,
        !.incorrect_count = @ + 1]

\* The answer appended and the counters and score updated on the handler's copy.
Answered(res, a) ==
    [res EXCEPT
        !.answers = Append(@, [card_id |-> a.card_id, is_correct |-> a.is_correct,
                               time_taken |-> a.time_taken]),
        !.correct_count = IF a.is_correct THEN @ + 1 ELSE @,
        !.score = IF a.is_correct THEN @ + ScoreAdd(a.time_taken) ELSE @,
        !.incorrect_count = IF a.is_correct THEN @ ELSE @ + 1]

\* Submissions that may still insert a result document, and those in progress.
PendingInserts == Cardinality({q \in Reqs : req[q].pc \in {"find_result", "insert"}})
PendingAnswers ==
    Cardinality({q \in Reqs : req[q].op = "submit_live_answer" /\ ~Free(q)})

RECURSIVE StoredAnswers(_)
StoredAnswers(j) == IF j = 0 THEN 0 ELSE Len(results[j].answers) + StoredAnswers(j - 1)

submit_live_answer_get(r, sid, nickname, card, correct, t) ==
    /\ Free(r)
    /\ Len(results) + PendingInserts < MaxResults
    /\ StoredAnswers(Len(results)) + PendingAnswers < MaxAnswers
    /\ LET a == [IdleReq EXCEPT !.op = "submit_live_answer", !.sid = sid,
                                !.nickname = nickname, !.card_id = card,
                                !.is_correct = correct, !.time_taken = t] IN
       IF ~Exists(sid)
       THEN \* the HTTPException(404) is caught by `except Exception` and raised as 500
            req' = [req EXCEPT ![r] = Done(a, Resp(500, "error", 0, 0))]
       ELSE IF ~AcceptsAnswers(sessions[sid])
       THEN IF sessions[sid].status = "completed"
            THEN req' = [req EXCEPT ![r] = Done(a, Resp(200, "game_over", 0, 0))]
            ELSE req' = [req EXCEPT ![r] = Done(a, Resp(200, "Session not active", 0, 0))]
       ELSE req' = [req EXCEPT ![r] = [a EXCEPT !.pc = "find_result",
                                                !.session = sessions[sid]]]
    /\ UNCHANGED <<sessions, results, notLive>>

submit_live_answer_find_result(r) ==
    /\ req[r].op = "submit_live_answer"
    /\ req[r].pc = "find_result"
    /\ IF FindResults(req[r].sid, req[r].nickname) # {}
       THEN \E j \in FindResults(req[r].sid, req[r].nickname) :
                req' = [req EXCEPT ![r] = [@ EXCEPT !.pc = "save", !.result = results[j]]]
       ELSE req' = [req EXCEPT ![r] = [@ EXCEPT !.pc = "insert"]]
    /\ UNCHANGED <<sessions, results, notLive>>

submit_live_answer_insert(r) ==
    /\ req[r].op = "submit_live_answer"
    /\ req[r].pc = "insert"
    /\ results' = Append(results, NewResult(req[r].sid, req[r].nickname))
    /\ req' = [req EXCEPT ![r] = [@ EXCEPT !.pc = "save",
                                           !.result = NewResult(req[r].sid, req[r].nickname)]]
    /\ UNCHANGED <<sessions, notLive>>

\* The handler's copy is updated between the read and save(); the update is
\* applied here, with the write.
submit_live_answer_save(r) ==
    /\ req[r].op = "submit_live_answer"
    /\ req[r].pc = "save"
    /\ results' = SaveResult(Answered(req[r].result, req[r]))
    /\ req' = [req EXCEPT ![r] =
                  Done(req[r], Resp(200, "ok", Answered(req[r].result, req[r]).score, 0))]
    /\ UNCHANGED <<sessions, notLive>>

\* ------------------------------------------------ decks and their items
\* Requests to the study handlers are handled one after the other: a handler
\* is one action.  ease_factor is kept in hundredths (2.5 is 250), difficulty
\* as the fraction <<numerator, denominator>>; last_review is null or stamped,
\* next_review and unlock_date are days of the clock `now`.
LearningModes == {"all_at_once", "spaced"}
CardCounts == {1, 2}                  \* len(DeckCreate.cards)
MissingItem == 3                      \* an id of no card
MissingDeck == 2                      \* an id of no deck
QualityInputs == {-1, 0, 1, 2, 3, 4, 5, 6}   \* CardAnswer.quality: any int
TimeTakenInputs == {0, 7}             \* CardAnswer.time_taken; 0 also for none
CardsPerDayInputs == {<<>>, <<0>>, <<1>>}    \* DeckCreate.cards_per_day
DefaultCardsPerDay == 10

InitialEase == 250
MinEase == 130
PassQuality == 3

\* Deck as inserted by create_deck; decks are made public, the default.
NewDeck(u, mode) ==
    [id |-> Len(decks) + 1, user_id |-> u, learning_mode |-> mode,
     is_public |-> TRUE, views_count |-> 0]

\* `deck_data.cards_per_day or 10`
CardsPerDay(cards_per_day) ==
    IF cards_per_day = <<>> THEN DefaultCardsPerDay
    ELSE IF cards_per_day[1] = 0 THEN DefaultCardsPerDay
    ELSE cards_per_day[1]

\* The day item number i (from 0) of a new deck unlocks.
UnlockDate(mode, cards_per_day, i) ==
    IF mode = "spaced" THEN now + (i \div CardsPerDay(cards_per_day)) ELSE now

\* ContentItem as inserted by create_deck: the model's defaults.
NewItem(id, deck, unlock_date) ==
    [id |-> id, deck_id |-> deck, is_new |-> TRUE, is_learned |-> FALSE,
     repetitions |-> 0, interval |-> 0, ease_factor |-> InitialEase,
     times_reviewed |-> 0, times_correct |-> 0, times_incorrect |-> 0,
     difficulty |-> <<0, 1>>, last_review |-> "None", next_review |-> <<>>,
     unlock_date |-> unlock_date]

create_deck(r, u, mode, n, cards_per_day) ==
    /\ Free(r)
    /\ decks' = Append(decks, NewDeck(u, mode))
    /\ cards' = cards \o [k \in 1..n |->
                               NewItem(Len(cards) + k, Len(decks) + 1,
                                       UnlockDate(mode, cards_per_day, k - 1))]
    /\ req' = [req EXCEPT ![r] =
                  Done([IdleReq EXCEPT !.op = "create_deck", !.caller = u,
                                       !.deck = Len(decks) + 1],
                       Resp(200, "created", 0, 0))]
    /\ UNCHANGED <<liveVars, reviews, stats, inviteVars>>

SaveCard(doc) == [cards EXCEPT ![doc.id] = doc]

Max(a, b) == IF a > b THEN a ELSE b

EaseDeltaLinear(q) == 10 * (q - 5)

\* `0.1 - (5 - q) * (0.08 + (5 - q) * 0.02)`, in hundredths
EaseDelta(q) == 10 - (5 - q) * (8 + (5 - q) * 2)

PassedEase(ef, q) == Max(MinEase, ef + EaseDelta(q))

FailedEaseNoFloor(ef) == ef - 20

FailedEase(ef) == Max(MinEase, ef - 20)

RoundedDown(interval, ef) == {(interval * ef) \div 100}

\* round(interval * ease_factor).  The ease factor is a float that carries the
\* error of the additions that made it, so a product that is exactly halfway
\* between two integers comes out on either side.
Rounded(interval, ef) ==
    LET p == interval * ef IN
    IF p % 100 < 50 THEN {p \div 100}
    ELSE IF p % 100 > 50 THEN {p \div 100 + 1}
    ELSE {p \div 100, p \div 100 + 1}

\* The interval of a pass, from the repetitions, interval and ease factor
\* the item has when the answer arrives.
PassIntervals(card) ==
    IF card.repetitions = 0 THEN {1}
    ELSE IF card.repetitions = 1 THEN {6}
    ELSE Rounded(card.interval, card.ease_factor)

LearnedAfterPassAlways(mode, card) == TRUE

\* is_learned after a pass; `card` has the new repetitions and interval.
LearnedAfterPass(mode, card) ==
    IF mode = "all_at_once" THEN TRUE
    ELSE IF card.repetitions >= 3 /\ card.interval >= 7 THEN TRUE
    ELSE card.is_learned

Passed(card, mode, q, interval) ==
    LET c == [card EXCEPT !.interval = interval,
                          !.repetitions = @ + 1,
                          !.ease_factor = PassedEase(@, q),
                          !.times_correct = @ + 1] IN
    [c EXCEPT !.is_learned = LearnedAfterPass(mode, c)]

FailedKeepsLearned(card) ==
    [card EXCEPT !.repetitions = 0,
                 !.interval = 1,
                 !.ease_factor = FailedEase(@),
                 !.times_incorrect = @ + 1]

Failed(card) ==
    [card EXCEPT !.repetitions = 0,
                 !.interval = 1,
                 !.ease_factor = FailedEase(@),
                 !.times_incorrect = @ + 1,
                 !.is_learned = FALSE]

DifficultyOfCorrect(times_correct, times_reviewed) == <<times_correct, times_reviewed>>

\* `1.0 - (card.times_correct / card.times_reviewed)`
Difficulty(times_correct, times_reviewed) ==
    <<times_reviewed - times_correct, times_reviewed>>

\* The lines after the two branches: the review is counted and stamped.
Reviewed(card) ==
    LET c == [card EXCEPT !.is_new = FALSE,
                          !.times_reviewed = @ + 1,
                          !.last_review = "now",
                          !.next_review = <<now + card.interval>>] IN
    IF c.times_reviewed > 0
    THEN [c EXCEPT !.difficulty = Difficulty(c.times_correct, c.times_reviewed)]
    ELSE c

\* The item as answer_card saves it, for each interval round() can give.
Scheduled(card, mode, q) ==
    IF q >= PassQuality
    THEN {Reviewed(Passed(card, mode, q, i)) : i \in PassIntervals(card)}
    ELSE {Reviewed(Failed(card))}

NewReview(u, card, q, t, interval_before) ==
    [card_id |-> card.id, user_id |-> u, deck_id |-> card.deck_id, quality |-> q,
     answer |-> IF q >= PassQuality THEN "good" ELSE "again", time_taken |-> t,
     interval_before |-> interval_before, interval_after |-> card.interval,
     ease_factor_after |-> card.ease_factor]

InsertReview(doc) == [count |-> reviews.count + 1, last |-> doc]

\* find_one(user_id == u, date == today): there is one day.
FindStats(u) == {j \in 1..Len(stats) : stats[j].user_id = u}

NewStats(u) ==
    [id |-> Len(stats) + 1, user_id |-> u, new_cards_learned |-> 0,
     cards_reviewed |-> 0, correct_answers |-> 0, incorrect_answers |-> 0,
     study_time_seconds |-> 0, decks_studied |-> <<>>]

\* The document found, or the new one made `if not daily_stats`.
TodayStats(u) ==
    IF FindStats(u) = {} THEN {NewStats(u)} ELSE {stats[j] : j \in FindStats(u)}

InSeq(x, seq) == \E k \in 1..Len(seq) : seq[k] = x

\* The day's statistics after the answer; `card` is the item as saved.
Counted(st, card, q, t) ==
    [st EXCEPT
        !.new_cards_learned = IF card.times_reviewed = 1 THEN @ + 1 ELSE @,
        !.cards_reviewed = IF card.times_reviewed = 1 THEN @ ELSE @ + 1,
        !.correct_answers = IF q >= PassQuality THEN @ + 1 ELSE @,
        !.incorrect_answers = IF q >= PassQuality THEN @ ELSE @ + 1,
        !.decks_studied = IF InSeq(card.deck_id, @) THEN @ ELSE Append(@, card.deck_id),
        !.study_time_seconds = IF t # 0 THEN @ + t ELSE @]

\* save() of the day's document, inserted when it is new.
SaveStats(doc) ==
    IF doc.id \in 1..Len(stats) THEN [stats EXCEPT ![doc.id] = doc]
    ELSE Append(stats, doc)

answer_card(r, u, card_id, q, t) ==
    /\ Free(r)
    /\ LET a == [IdleReq EXCEPT !.op = "answer_card", !.caller = u, !.item = card_id,
                                !.quality = q, !.time_taken = t] IN
       IF card_id \notin 1..Len(cards)
       THEN /\ req' = [req EXCEPT ![r] = Done(a, Resp(404, "error", 0, 0))]
            /\ UNCHANGED <<cards, reviews, stats>>
       ELSE IF cards[card_id].deck_id \notin 1..Len(decks)
       THEN /\ req' = [req EXCEPT ![r] = Done(a, Resp(404, "error", 0, 0))]
            /\ UNCHANGED <<cards, reviews, stats>>
       ELSE \E card \in Scheduled(cards[card_id],
                                  decks[cards[card_id].deck_id].learning_mode, q) :
                /\ cards' = SaveCard(card)
                /\ reviews' = InsertReview(
                                  NewReview(u, card, q, t, cards[card_id].interval))
                /\ \E st \in TodayStats(u) :
                       stats' = SaveStats(Counted(st, card, q, t))
                /\ req' = [req EXCEPT ![r] =
                              Done([a EXCEPT !.deck = card.deck_id],
                                   [Resp(200, "Card updated", 0, 0)
                                       EXCEPT !.interval = card.interval])]
    /\ UNCHANGED <<liveVars, decks, inviteVars>>

ResetItemKeepsEase(card) ==
    [card EXCEPT !.is_new = TRUE, !.is_learned = FALSE, !.repetitions = 0,
                 !.interval = 0, !.times_reviewed = 0,
                 !.times_correct = 0, !.times_incorrect = 0, !.difficulty = <<0, 1>>,
                 !.last_review = "None", !.next_review = <<>>]

ResetItem(card) ==
    [card EXCEPT !.is_new = TRUE, !.is_learned = FALSE, !.repetitions = 0,
                 !.interval = 0, !.ease_factor = InitialEase, !.times_reviewed = 0,
                 !.times_correct = 0, !.times_incorrect = 0, !.difficulty = <<0, 1>>,
                 !.last_review = "None", !.next_review = <<>>]

reset_deck_progress(r, u, deck) ==
    /\ Free(r)
    /\ LET a == [IdleReq EXCEPT !.op = "reset_deck_progress", !.caller = u,
                                !.deck = deck] IN
       IF deck \notin 1..Len(decks)
       THEN /\ req' = [req EXCEPT ![r] = Done(a, Resp(404, "error", 0, 0))]
            /\ UNCHANGED cards
       ELSE /\ cards' = [k \in 1..Len(cards) |->
                            IF cards[k].deck_id = deck THEN ResetItem(cards[k])
                            ELSE cards[k]]
            /\ req' = [req EXCEPT ![r] = Done(a, Resp(200, "reset", 0, 0))]
    /\ UNCHANGED <<liveVars, decks, reviews, stats, inviteVars>>

\* --------------------------------------------- invitations (teacher.py)
\* An optional value is <<>> (None) or <<v>>.
InviteCodes == {"10000001"}
JoinCodes == InviteCodes \cup {"99999999"}     \* "99999999": a code of no invitation
InviteStudents == {"s1", "s2"}
MaxUsesInputs == {<<>>, <<0>>, <<1>>}     \* CreateInvitationRequest.max_uses
ExpiresInDaysInputs == {<<>>, <<1>>}      \* CreateInvitationRequest.expires_in_days

\* A day passes.
Tick ==
    /\ now < MaxClock
    /\ now' = now + 1
    /\ UNCHANGED <<liveVars, req, studyVars, invitations, accesses>>

\* `if request.expires_in_days: expires_at = now + timedelta(days=...)`
ExpiresAt(days) ==
    IF days # <<>> /\ days[1] # 0 THEN <<now + days[1]>> ELSE <<>>

NewInvitation(teacher, deck, code, max_uses, expires_at) ==
    [id |-> Len(invitations) + 1, deck_id |-> deck, teacher_id |-> teacher,
     code |-> code, uses_count |-> 0, max_uses |-> max_uses, joined_students |-> <<>>,
     is_active |-> TRUE, expires_at |-> expires_at]

SaveInvitation(doc) == [invitations EXCEPT ![doc.id] = doc]

\* find_one({deck_id, teacher_id, is_active: True})
FindActiveInvitations(deck, teacher) ==
    {j \in 1..Len(invitations) :
        /\ invitations[j].deck_id = deck
        /\ invitations[j].teacher_id = teacher
        /\ invitations[j].is_active}

\* The role check, Deck.get and the ownership check.
create_invitation_get(r, u, deck, max_uses, days, code) ==
    /\ Free(r)
    /\ LET a == [IdleReq EXCEPT !.op = "create_invitation", !.caller = u, !.deck = deck,
                                !.max_uses = max_uses, !.expires_in_days = days,
                                !.code = code] IN
       IF Role(u) # "teacher"
       THEN req' = [req EXCEPT ![r] = Done(a, Resp(403, "error", 0, 0))]
       ELSE IF deck \notin 1..Len(decks) \/ decks[deck].user_id # u
       THEN req' = [req EXCEPT ![r] = Done(a, Resp(404, "error", 0, 0))]
       ELSE req' = [req EXCEPT ![r] = [a EXCEPT !.pc = "find_existing"]]
    /\ UNCHANGED <<liveVars, studyVars, inviteVars>>

\* find_one for an active invitation of the deck and teacher: it is returned
\* when there is one.
create_invitation_find(r) ==
    /\ req[r].op = "create_invitation"
    /\ req[r].pc = "find_existing"
    /\ IF FindActiveInvitations(req[r].deck, req[r].caller) # {}
       THEN \E j \in FindActiveInvitations(req[r].deck, req[r].caller) :
                req' = [req EXCEPT ![r] =
                           Done([@ EXCEPT !.code = invitations[j].code],
                                Resp(200, "existing", 0, 0))]
       ELSE req' = [req EXCEPT ![r] = [@ EXCEPT !.pc = "insert"]]
    /\ UNCHANGED <<liveVars, studyVars, inviteVars>>

create_invitation_insert(r) ==
    /\ req[r].op = "create_invitation"
    /\ req[r].pc = "insert"
    /\ invitations' = Append(invitations,
                             NewInvitation(req[r].caller, req[r].deck, req[r].code,
                                           req[r].max_uses,
                                           ExpiresAt(req[r].expires_in_days)))
    /\ req' = [req EXCEPT ![r] = Done(@, Resp(200, "created", 0, 0))]
    /\ UNCHANGED <<liveVars, studyVars, accesses, now>>

\* deactivate_invitation: the role check, DeckInvitation.get, the ownership
\* check and `is_active = False` on the handler's copy.
deactivate_invitation_get(r, u, id) ==
    /\ Free(r)
    /\ LET a == [IdleReq EXCEPT !.op = "deactivate_invitation", !.caller = u,
                                !.invitation_id = id] IN
       IF Role(u) # "teacher"
       THEN req' = [req EXCEPT ![r] = Done(a, Resp(403, "error", 0, 0))]
       ELSE IF id \notin 1..Len(invitations) \/ invitations[id].teacher_id # u
       THEN req' = [req EXCEPT ![r] = Done(a, Resp(404, "error", 0, 0))]
       ELSE req' = [req EXCEPT ![r] =
                       [a EXCEPT !.pc = "save_deactivated",
                                 !.invitation = [invitations[id] EXCEPT !.is_active = FALSE]]]
    /\ UNCHANGED <<liveVars, studyVars, inviteVars>>

deactivate_invitation_save(r) ==
    /\ req[r].op = "deactivate_invitation"
    /\ req[r].pc = "save_deactivated"
    /\ invitations' = SaveInvitation(req[r].invitation)
    /\ req' = [req EXCEPT ![r] = Done(@, Resp(200, "deactivated", 0, 0))]
    /\ UNCHANGED <<liveVars, studyVars, accesses, now>>

\* find_one(code == code, is_active == True)
FindInvitations(code) ==
    {j \in 1..Len(invitations) : invitations[j].code = code /\ invitations[j].is_active}

\* `invitation.expires_at and invitation.expires_at < datetime.now()`
Expired(inv) == inv.expires_at # <<>> /\ inv.expires_at[1] < now

\* `invitation.max_uses and invitation.uses_count >= invitation.max_uses`:
\* a max_uses of 0 is as good as none.
LimitReached(inv) ==
    /\ inv.max_uses # <<>>
    /\ inv.max_uses[1] # 0
    /\ inv.uses_count >= inv.max_uses[1]

FindAccessesNone(student, deck) == {}

\* find_one(student_id == student, deck_id == deck)
FindAccesses(student, deck) ==
    {j \in 1..Len(accesses) :
        accesses[j].student_id = student /\ accesses[j].deck_id = deck}

NewAccess(student, inv, code) ==
    [id |-> Len(accesses) + 1, student_id |-> student, deck_id |-> inv.deck_id,
     teacher_id |-> inv.teacher_id, invitation_code |-> code]

\* The invitation the handler holds after `uses_count += 1` and the append.
Redeemed(inv, student) ==
    [inv EXCEPT !.uses_count = @ + 1,
                !.joined_students = IF InSeq(student, @) THEN @ ELSE Append(@, student)]

\* The invitation is looked up and its expiry and limit are checked.
join_deck_find_invitation(r, u, code) ==
    /\ Free(r)
    /\ LET a == [IdleReq EXCEPT !.op = "join_deck", !.caller = u, !.code = code] IN
       IF FindInvitations(code) = {}
       THEN req' = [req EXCEPT ![r] = Done(a, Resp(404, "error", 0, 0))]
       ELSE \E j \in FindInvitations(code) :
               IF Expired(invitations[j])
               THEN req' = [req EXCEPT ![r] = Done(a, Resp(400, "expired", 0, 0))]
               ELSE IF LimitReached(invitations[j])
               THEN req' = [req EXCEPT ![r] = Done(a, Resp(400, "limit", 0, 0))]
               ELSE req' = [req EXCEPT ![r] = [a EXCEPT !.pc = "find_access",
                                                        !.invitation = invitations[j]]]
    /\ UNCHANGED <<liveVars, studyVars, inviteVars>>

join_deck_find_access(r) ==
    /\ req[r].op = "join_deck"
    /\ req[r].pc = "find_access"
    /\ IF FindAccesses(req[r].caller, req[r].invitation.deck_id) # {}
       THEN req' = [req EXCEPT ![r] = Done(@, Resp(200, "already_joined", 0, 0))]
       ELSE req' = [req EXCEPT ![r] = [@ EXCEPT !.pc = "insert_access"]]
    /\ UNCHANGED <<liveVars, studyVars, inviteVars>>

join_deck_insert_access(r) ==
    /\ req[r].op = "join_deck"
    /\ req[r].pc = "insert_access"
    /\ accesses' = Append(accesses, NewAccess(req[r].caller, req[r].invitation, req[r].code))
    /\ req' = [req EXCEPT ![r] =
                  [@ EXCEPT !.pc = "save_invitation",
                            !.invitation = Redeemed(@, req[r].caller)]]
    /\ UNCHANGED <<liveVars, studyVars, invitations, now>>

\* invitation.save(); Deck.get and User.get that follow only read.
join_deck_save_invitation(r) ==
    /\ req[r].op = "join_deck"
    /\ req[r].pc = "save_invitation"
    /\ invitations' = SaveInvitation(req[r].invitation)
    /\ req' = [req EXCEPT ![r] = Done(@, Resp(200, "joined", 0, 0))]
    /\ UNCHANGED <<liveVars, studyVars, accesses, now>>

\* ------------------------------------ deck listings and the deck's detail
\* A listing handler is one action.  progress is kept in tenths (33.3 is 333).
ListCardCounts == {0, 2, 3}            \* len(DeckCreate.cards), none too
ModeUpdates == {<<>>, <<"all_at_once">>, <<"spaced">>}   \* DeckUpdate.learning_mode
PublicUpdates == {<<>>, <<FALSE>>}                       \* DeckUpdate.is_public

ItemsOf(deck) == {k \in 1..Len(cards) : cards[k].deck_id = deck}

TotalCards(deck) == Cardinality(ItemsOf(deck))

LearnedCards(deck) == Cardinality({k \in ItemsOf(deck) : cards[k].is_learned})

\* count(is_new == True, unlock_date <= today)
NewDue(deck) ==
    Cardinality({k \in ItemsOf(deck) : cards[k].is_new /\ cards[k].unlock_date <= now})

\* count(is_new == False, next_review <= today); a null next_review matches
\* no date.
ReviewsDue(deck) ==
    Cardinality({k \in ItemsOf(deck) :
                    /\ ~cards[k].is_new
                    /\ cards[k].next_review # <<>>
                    /\ cards[k].next_review[1] <= now})

CardsDue(deck) == NewDue(deck) + ReviewsDue(deck)

\* get_deck's count(unlock_date <= now, is_learned == False)
Due(deck) ==
    Cardinality({k \in ItemsOf(deck) :
                    cards[k].unlock_date <= now /\ ~cards[k].is_learned})

ListingStatusNoMastered(total, learned, cards_due) ==
    IF total = 0 THEN "empty"
    ELSE IF cards_due = 0 /\ learned > 0 THEN "done_for_today"
    ELSE "active"

\* The status chain of get_my_decks and get_my_teachers_decks.
ListingStatus(total, learned, cards_due) ==
    IF total = 0 THEN "empty"
    ELSE IF learned = total /\ total > 0 THEN "mastered"
    ELSE IF cards_due = 0 /\ learned > 0 THEN "done_for_today"
    ELSE IF cards_due > 0 THEN "active"
    ELSE "active"

\* The status chain of get_deck.
DetailStatus(total, learned, due, mode) ==
    IF total = 0 THEN "empty"
    ELSE IF learned = total THEN "mastered"
    ELSE IF due = 0 /\ mode = "spaced" THEN "done_for_today"
    ELSE "active"

\* `round(learned / total * 100, 1)` in tenths, 0 for no items.  The quotient
\* is a float: a value exactly halfway between two tenths comes out on
\* either side.
Progress(total, learned) ==
    IF total > 0
    THEN LET p == learned * 1000 IN
         IF 2 * (p % total) < total THEN {p \div total}
         ELSE IF 2 * (p % total) > total THEN {p \div total + 1}
         ELSE {p \div total, p \div total + 1}
    ELSE {0}

StatusPriority(status) ==
    IF status = "active" THEN 0
    ELSE IF status = "done_for_today" THEN 1
    ELSE IF status = "mastered" THEN 2
    ELSE IF status = "empty" THEN 3
    ELSE 4

\* The entries a listing can hold for the deck: one per value of progress.
Entries(deck) ==
    {[deck_id |-> deck, total_cards |-> TotalCards(deck),
      learned_cards |-> LearnedCards(deck), cards_due |-> CardsDue(deck),
      status |-> ListingStatus(TotalCards(deck), LearnedCards(deck), CardsDue(deck)),
      progress |-> p] : p \in Progress(TotalCards(deck), LearnedCards(deck))}

\* Deck.find(user_id == u)
DecksOf(u) == {d \in 1..Len(decks) : decks[d].user_id = u}

\* The listings get_my_decks can return: an entry for each deck of the user,
\* in the order of `results.sort(key=sort_key)`.  The order of the query,
\* by updated_at, only decides between entries of one priority: any is taken.
MyDecks(u) ==
    {l \in [1..Cardinality(DecksOf(u)) -> UNION {Entries(d) : d \in DecksOf(u)}] :
        /\ \A d \in DecksOf(u) : \E i \in DOMAIN l : l[i].deck_id = d
        /\ \A i, j \in DOMAIN l :
               i < j => StatusPriority(l[i].status) <= StatusPriority(l[j].status)}

\* No limit is given.
get_my_decks(r, u) ==
    /\ Free(r)
    /\ \E l \in MyDecks(u) :
           req' = [req EXCEPT ![r] =
                      Done([IdleReq EXCEPT !.op = "get_my_decks", !.caller = u],
                           [Resp(200, "ok", 0, 0) EXCEPT !.listing = l])]
    /\ UNCHANGED <<liveVars, studyVars, inviteVars>>

\* find(student_id == u, is_active == True).sort(-joined_at): no handler
\* clears is_active, and a later access is a later document.
AccessesOf(u) ==
    LET found == SelectSeq(accesses, LAMBDA a : a.student_id = u) IN
    [i \in 1..Len(found) |-> found[Len(found) + 1 - i]]

\* The listings get_my_teachers_decks can return: an entry for each access
\* whose deck is there.
TeachersDecks(u) ==
    LET there == SelectSeq(AccessesOf(u), LAMBDA a : a.deck_id \in 1..Len(decks)) IN
    {l \in [1..Len(there) -> UNION {Entries(there[i].deck_id) : i \in 1..Len(there)}] :
        \A i \in 1..Len(there) : l[i].deck_id = there[i].deck_id}

get_my_teachers_decks(r, u) ==
    /\ Free(r)
    /\ \E l \in TeachersDecks(u) :
           req' = [req EXCEPT ![r] =
                      Done([IdleReq EXCEPT !.op = "get_my_teachers_decks", !.caller = u],
                           [Resp(200, "ok", 0, 0) EXCEPT !.listing = l])]
    /\ UNCHANGED <<liveVars, studyVars, inviteVars>>

SaveDeck(doc) == [decks EXCEPT ![doc.id] = doc]

\* The deck's detail: the view is counted, then the items are.
get_deck(r, u, deck) ==
    /\ Free(r)
    /\ LET a == [IdleReq EXCEPT !.op = "get_deck", !.caller = u, !.deck = deck] IN
       IF deck \notin 1..Len(decks)
       THEN /\ req' = [req EXCEPT ![r] = Done(a, Resp(404, "error", 0, 0))]
            /\ UNCHANGED decks
       ELSE IF /\ decks[deck].user_id # u
               /\ FindAccesses(u, deck) = {}
               /\ ~decks[deck].is_public
       THEN /\ req' = [req EXCEPT ![r] = Done(a, Resp(403, "error", 0, 0))]
            /\ UNCHANGED decks
       ELSE /\ decks' = SaveDeck([decks[deck] EXCEPT !.views_count = @ + 1])
            /\ req' = [req EXCEPT ![r] =
                          Done(a, [Resp(200,
                                        DetailStatus(TotalCards(deck), LearnedCards(deck),
                                                     Due(deck),
                                                     decks[deck].learning_mode),
                                        0, 0)
                                      EXCEPT !.listing =
                                          <<[deck_id |-> deck,
                                             total_cards |-> TotalCards(deck),
                                             learned_cards |-> LearnedCards(deck),
                                             cards_due |-> Due(deck)]>>])]
    /\ UNCHANGED <<liveVars, cards, reviews, stats, inviteVars>>

\* The fields of DeckUpdate that are set are written over the deck's.
Updated(deck, mode, public) ==
    [deck EXCEPT !.learning_mode = IF mode = <<>> THEN @ ELSE mode[1],
                 !.is_public = IF public = <<>> THEN @ ELSE public[1]]

update_deck(r, u, deck, mode, public) ==
    /\ Free(r)
    /\ LET a == [IdleReq EXCEPT !.op = "update_deck", !.caller = u, !.deck = deck] IN
       IF deck \notin 1..Len(decks)
       THEN /\ req' = [req EXCEPT ![r] = Done(a, Resp(404, "error", 0, 0))]
            /\ UNCHANGED decks
       ELSE IF decks[deck].user_id # u
       THEN /\ req' = [req EXCEPT ![r] = Done(a, Resp(403, "error", 0, 0))]
            /\ UNCHANGED decks
       ELSE /\ decks' = SaveDeck(Updated(decks[deck], mode, public))
            /\ req' = [req EXCEPT ![r] = Done(a, Resp(200, "updated", 0, 0))]
    /\ UNCHANGED <<liveVars, cards, reviews, stats, inviteVars>>

\* ----------------------------------------------------------- specifications
\* The steps of the teacher's handlers, and of join, for request r.
TeacherSteps(r, sids, users) ==
    \/ \E sid \in sids, u \in users : start_session_get(r, sid, u)
    \/ start_session_save(r)
    \/ \E sid \in sids, u \in users : finish_session_get(r, sid, u)
    \/ finish_session_save(r)
    \/ \E sid \in sids, u \in users : review_session_get(r, sid, u)
    \/ review_session_save(r)

JoinSteps(r, codes, nicknames) ==
    \/ \E c \in codes, n \in nicknames : join_session_find_waiting(r, c, n)
    \/ join_session_find_active(r)
    \/ join_session_save(r)

SubmitSteps(r, sids, nicknames, answers) ==
    \/ \E sid \in sids, n \in nicknames, c \in CardIds, a \in answers :
           submit_live_answer_get(r, sid, n, c, a[1], a[2])
    \/ submit_live_answer_find_result(r)
    \/ submit_live_answer_insert(r)
    \/ submit_live_answer_save(r)

\* Roster: one session of any capacity, requests handled one after the other.
RosterNext ==
    \/ /\ sessions = <<>>
       /\ \E u \in Users, d \in DeckIds, c \in SessionCodes, m \in MaxParticipantsInputs :
              create_session("r1", u, d, c, m)
    \/ TeacherSteps("r1", SessionIds, Users)
    \/ JoinSteps("r1", SessionCodes, Nicknames)

RosterSpec == Init /\ [][RosterNext]_vars

\* Codes: sessions that share a code, requests handled one after the other.
CodeNext ==
    \/ /\ Len(sessions) < MaxSessions
       /\ create_session("r1", "t1", "d1", "111111", 1)
    \/ TeacherSteps("r1", SessionIds, {"t1"})
    \/ JoinSteps("r1", SessionCodes, {"A", "B"})

CodeSpec == Init /\ [][CodeNext]_vars

\* Answers: one session, requests handled one after the other.
AnswerNext ==
    \/ /\ sessions = <<>>
       /\ create_session("r1", "t1", "d1", "111111", 1)
    \/ TeacherSteps("r1", {1}, {"t1"})
    \/ JoinSteps("r1", {"111111"}, {"A"})
    \/ SubmitSteps("r1", SessionIds, {"A", "B"}, AnswerInputs)

AnswerSpec == Init /\ [][AnswerNext]_vars

\* Concurrent answers: one active session, two submissions interleaving at
\* their awaits.
ConcNext ==
    \/ /\ sessions = <<>>
       /\ create_session("r1", "t1", "d1", "111111", 1)
    \/ start_session_get("r1", 1, "t1")
    \/ start_session_save("r1")
    \/ \E r \in Reqs : SubmitSteps(r, {1}, {"A"}, {<<TRUE, 5>>, <<FALSE, 5>>})

ConcSpec == Init /\ [][ConcNext]_vars

\* Study: one deck of either mode with one or two items, any quality.
StudyNext ==
    \/ /\ decks = <<>>
       /\ \E m \in LearningModes, n \in CardCounts : create_deck("r1", "s1", m, n, <<>>)
    \/ /\ reviews.count < MaxReviews
       /\ \E c \in 1..Len(cards), q \in QualityInputs, t \in TimeTakenInputs :
              answer_card("r1", "s1", c, q, t)
    \/ answer_card("r1", "s1", MissingItem, 4, 7)
    \/ \E d \in 1..Len(decks) : reset_deck_progress("r1", "s1", d)
    \/ reset_deck_progress("r1", "s1", MissingDeck)

StudySpec == Init /\ [][StudyNext]_vars

\* Lobby: one session for two participants; the teacher's requests take one
\* place, joins take both, and all interleave at their awaits.
LobbyNext ==
    \/ /\ sessions = <<>>
       /\ create_session("r1", "t1", "d1", "111111", 2)
    \/ TeacherSteps("r1", {1}, {"t1"})
    \/ JoinSteps("r1", {"111111"}, {"A"})
    \/ JoinSteps("r2", {"111111"}, {"B"})

LobbySpec == Init /\ [][LobbyNext]_vars

\* Ease: one item of a deck of either mode answered many times, with the
\* qualities of each branch (2 for 0, 1 and 2, which the handler does not
\* tell apart).
EaseQualities == {2, 3, 4, 5}

EaseNext ==
    \/ /\ decks = <<>>
       /\ \E m \in LearningModes : create_deck("r1", "s1", m, 1, <<>>)
    \/ /\ reviews.count < MaxEaseReviews
       /\ \E q \in EaseQualities : answer_card("r1", "s1", 1, q, 7)
    \/ reset_deck_progress("r1", "s1", 1)

EaseSpec == Init /\ [][EaseNext]_vars

CreateInvitationSteps(r, users, deckids) ==
    \/ \E u \in users, d \in deckids, m \in MaxUsesInputs, e \in ExpiresInDaysInputs,
          c \in InviteCodes : create_invitation_get(r, u, d, m, e, c)
    \/ create_invitation_find(r)
    \/ create_invitation_insert(r)

JoinDeckSteps(r, students, codes) ==
    \/ \E u \in students, c \in codes : join_deck_find_invitation(r, u, c)
    \/ join_deck_find_access(r)
    \/ join_deck_insert_access(r)
    \/ join_deck_save_invitation(r)

\* Invitations: one deck of teacher t1, one request that creates invitations,
\* two students who redeem them, their requests interleaving at the awaits.
InviteNext ==
    \/ /\ decks = <<>>
       /\ create_deck("r1", "t1", "all_at_once", 1, <<>>)
    \/ CreateInvitationSteps("r1", Users, {1, MissingDeck})
    \/ JoinDeckSteps("r1", {"s1"}, JoinCodes)
    \/ JoinDeckSteps("r2", {"s2"}, InviteCodes)
    \/ Tick

InviteSpec == Init /\ [][InviteNext]_vars

\* Access: one deck of teacher t1, who creates and deactivates invitations
\* without limit or expiry, and one student who redeems them; two requests
\* interleave at their awaits.
AccessCodes == {"10000001", "10000002"}

AccessNext ==
    \/ /\ decks = <<>>
       /\ create_deck("r1", "t1", "all_at_once", 1, <<>>)
    \/ /\ Len(invitations)
              + Cardinality({q \in Reqs : req[q].op = "create_invitation" /\ ~Free(q)})
            < MaxInvitations
       /\ \E r \in Reqs, c \in AccessCodes :
              create_invitation_get(r, "t1", 1, <<>>, <<>>, c)
    \/ \E r \in Reqs : create_invitation_find(r)
    \/ \E r \in Reqs : create_invitation_insert(r)
    \/ \E id \in 1..MaxInvitations : deactivate_invitation_get("r1", "t1", id)
    \/ deactivate_invitation_save("r1")
    \/ \E r \in Reqs : JoinDeckSteps(r, {"s1"}, AccessCodes)

AccessSpec == Init /\ [][AccessNext]_vars

\* The teacher invites to deck 1 and student s1 joins, before the deck is
\* studied.
InvitedSteps(r) ==
    \/ /\ invitations = <<>> /\ reviews.count = 0 /\ now = 0
       /\ \E c \in InviteCodes : create_invitation_get(r, "t1", 1, <<>>, <<>>, c)
    \/ create_invitation_find(r)
    \/ create_invitation_insert(r)
    \/ /\ accesses = <<>> /\ reviews.count = 0 /\ now = 0
       /\ \E c \in InviteCodes : join_deck_find_invitation(r, "s1", c)
    \/ join_deck_find_access(r)
    \/ join_deck_insert_access(r)
    \/ join_deck_save_invitation(r)

\* Listing: one deck of teacher t1 of either mode with up to three items,
\* which student s1 may join; the items are answered and the listings and
\* the detail are read, one request after the other, on one day.
ListQualities == {2, 4}

ListNext ==
    \/ /\ decks = <<>>
       /\ \E m \in LearningModes, n \in ListCardCounts, cpd \in CardsPerDayInputs :
              create_deck("r1", "t1", m, n, cpd)
    \/ /\ reviews.count < MaxReviews
       /\ \E c \in 1..Len(cards), q \in ListQualities : answer_card("r1", "t1", c, q, 0)
    \/ get_my_decks("r1", "t1")
    \/ /\ \A d \in 1..Len(decks) : decks[d].views_count < MaxViews
       /\ \E d \in {1, MissingDeck} : get_deck("r1", "t1", d)
    \/ get_my_teachers_decks("r1", "s1")
    \/ InvitedSteps("r1")

ListSpec == Init /\ [][ListNext]_vars

\* Due: the same over the days, for a deck with one or two items.
DueNext ==
    \/ /\ decks = <<>>
       /\ \E m \in LearningModes, n \in CardCounts, cpd \in CardsPerDayInputs :
              create_deck("r1", "t1", m, n, cpd)
    \/ /\ reviews.count < MaxReviews
       /\ \E c \in 1..Len(cards), q \in ListQualities : answer_card("r1", "t1", c, q, 0)
    \/ Tick
    \/ get_my_decks("r1", "t1")
    \/ get_my_teachers_decks("r1", "s1")
    \/ InvitedSteps("r1")

DueSpec == Init /\ [][DueNext]_vars

\* Update: one deck of teacher t1 with one item, which the teacher updates
\* and resets and the student answers and looks at.
DeckNext ==
    \/ /\ decks = <<>>
       /\ \E m \in LearningModes : create_deck("r1", "t1", m, 1, <<>>)
    \/ \E u \in {"t1", "s1"}, d \in {1, MissingDeck}, m \in ModeUpdates,
          p \in PublicUpdates : update_deck("r1", u, d, m, p)
    \/ /\ reviews.count < MaxReviews
       /\ \E q \in ListQualities : answer_card("r1", "s1", 1, q, 0)
    \/ reset_deck_progress("r1", "t1", 1)
    \/ /\ \A d \in 1..Len(decks) : decks[d].views_count < MaxViews
       /\ \E u \in {"t1", "s1"} : get_deck("r1", u, 1)

DeckSpec == Init /\ [][DeckNext]_vars

\* ------------------------------------------------------------------ claims
Roster(s) == {s.participants[k].nickname : k \in 1..Len(s.participants)}

\* Request r arrives in this step with operation op.
Arrives(r, op) == Free(r) /\ req'[r] # req[r] /\ req'[r].op = op

\* The join of request r finds its session in this step.
JoinResolves(r) ==
    /\ req'[r] # req[r]
    /\ req'[r].op = "join_session"
    /\ Free(r) \/ (req[r].op = "join_session" /\ req[r].pc = "find_active")
    /\ req'[r].sid # 0

\* Request r returns in this step, resp its response.
Returns(r, http, status) ==
    /\ req'[r].pc = "done"
    /\ req'[r].resp.http = http
    /\ req'[r].resp.status = status

StatusEdges ==
    {<<"waiting", "active">>, <<"active", "review">>, <<"active", "completed">>,
     <<"review", "completed">>, <<"waiting", "cancelled">>, <<"active", "cancelled">>}

\* C1: the status of a session changes only along waiting->active,
\* active->review, active->completed, review->completed, waiting->cancelled,
\* active->cancelled; Start, Review or Finish in any other status leave it.
C1_StatusEdges ==
    [][\A i \in 1..Len(sessions) :
          sessions'[i].status # sessions[i].status
              => <<sessions[i].status, sessions'[i].status>> \in StatusEdges]_vars

\* C2: once Finish has completed a session (completed_at is stamped), no
\* SubmitAnswer on it is accepted again: none of its results is created or
\* changed afterwards.
C2_CompletedTerminal ==
    [][\A i \in 1..Len(sessions) :
          sessions[i].completed_at # "None"
              => \A j \in 1..Len(results') :
                     results'[j].session_id = i
                         => j <= Len(results) /\ results'[j] = results[j]]_vars

\* C3: a SubmitAnswer that finds its session in a status other than active
\* returns at once, with game_over for completed and the not-active error for
\* the others, and no result is created or changed.
C3_InactiveSubmitNoEffect ==
    [][\A r \in Reqs :
          (/\ Arrives(r, "submit_live_answer")
           /\ Exists(req'[r].sid)
           /\ sessions[req'[r].sid].status # "active")
              => /\ results' = results
                 /\ IF sessions[req'[r].sid].status = "completed"
                    THEN Returns(r, 200, "game_over")
                    ELSE Returns(r, 200, "Session not active")]_vars

C3_Witness ==
    \E r \in Reqs :
        /\ req[r].op = "submit_live_answer"
        /\ req[r].pc = "done"
        /\ req[r].resp.status = "game_over"
        /\ sessions[req[r].sid].status = "completed"
        /\ \E j \in FindResults(req[r].sid, req[r].nickname) : Len(results[j].answers) > 0

\* C4: when two SubmitAnswer requests of one (session, nickname) have both
\* returned ok, a stored result of that key holds both answers and its
\* counters count both.
C4_NoLostUpdate ==
    \A r1, r2 \in Reqs :
        (/\ r1 # r2
         /\ \A r \in {r1, r2} :
                /\ req[r].op = "submit_live_answer"
                /\ req[r].pc = "done"
                /\ req[r].resp.status = "ok"
         /\ req[r1].sid = req[r2].sid
         /\ req[r1].nickname = req[r2].nickname)
            => \E j \in FindResults(req[r1].sid, req[r1].nickname) :
                   /\ Len(results[j].answers) >= 2
                   /\ results[j].correct_count
                          >= Cardinality({r \in {r1, r2} : req[r].is_correct})
                   /\ results[j].incorrect_count
                          >= Cardinality({r \in {r1, r2} : ~req[r].is_correct})

\* C5: there is at most one result per (session, nickname).
C5_OneResultPerParticipant ==
    \A j, k \in 1..Len(results) :
        (/\ results[j].session_id = results[k].session_id
         /\ results[j].participant_nickname = results[k].participant_nickname)
            => j = k

\* C6: no roster holds a nickname twice, and a Join whose nickname is in the
\* roster of the session it finds succeeds and changes no session.
C6_IdempotentJoin ==
    /\ [](\A i \in 1..Len(sessions) :
             Cardinality(Roster(sessions[i])) = Len(sessions[i].participants))
    /\ [][\A r \in Reqs :
             (JoinResolves(r) /\ req'[r].nickname \in Roster(sessions[req'[r].sid]))
                 => Returns(r, 200, "Joined") /\ sessions' = sessions]_vars

C6_Witness ==
    \E r \in Reqs :
        /\ req[r].op = "join_session"
        /\ req[r].pc = "done"
        /\ req[r].resp.status = "Joined"
        /\ ~req[r].is_new
        /\ sessions[req[r].sid].max_participants = 2
        /\ Len(sessions[req[r].sid].participants) = 2
        /\ req[r].nickname \in Roster(sessions[req[r].sid])

\* The rules of a Join on the session it finds: a new nickname is refused with
\* 400 when the roster is at capacity, a nickname of the roster is let in; in
\* both cases no session changes.
JoinCapacityRules ==
    \A r \in Reqs :
        JoinResolves(r) =>
            LET s == sessions[req'[r].sid] IN
            /\ (req'[r].nickname \notin Roster(s)
                    /\ Len(s.participants) >= s.max_participants)
                   => Returns(r, 400, "error") /\ sessions' = sessions
            /\ req'[r].nickname \in Roster(s)
                   => Returns(r, 200, "Joined") /\ sessions' = sessions

\* C7 as claimed: in every state len(participants) <= max_participants, with
\* the rules of a Join on a full room.
C7_CapacityAsClaimed ==
    /\ [](\A i \in 1..Len(sessions) :
             Len(sessions[i].participants) <= sessions[i].max_participants)
    /\ [][JoinCapacityRules]_vars

\* C7 as amended: in every state len(participants) <= max(0, max_participants)
\* (a session may be created with a negative capacity and an empty roster),
\* with the rules of a Join on a full room.
C7_Capacity ==
    /\ [](\A i \in 1..Len(sessions) :
             Len(sessions[i].participants)
                 <= IF sessions[i].max_participants > 0
                    THEN sessions[i].max_participants ELSE 0)
    /\ [][JoinCapacityRules]_vars

C7_Witness ==
    \E r \in Reqs :
        /\ req[r].op = "join_session"
        /\ req[r].pc = "done"
        /\ req[r].resp.http = 400
        /\ req[r].nickname = "C"
        /\ sessions[req[r].sid].max_participants = 2
        /\ Roster(sessions[req[r].sid]) = {"A", "B"}

\* C8: a Join finds only a session of its code that is waiting or active, it
\* finds a waiting one whenever one exists, and when no session of its code is
\* waiting or active it returns 404 and no session changes.
C8_JoinLookup ==
    [][\A r \in Reqs :
          /\ JoinResolves(r)
                 => /\ sessions[req'[r].sid].session_code = req'[r].code
                    /\ sessions[req'[r].sid].status \in {"waiting", "active"}
          /\ (Arrives(r, "join_session")
                  /\ FindSessions(req'[r].code, "waiting") # {})
                 => /\ req'[r].sid \in FindSessions(req'[r].code, "waiting")
          /\ (Arrives(r, "join_session")
                  /\ FindSessions(req'[r].code, "waiting") = {}
                  /\ FindSessions(req'[r].code, "active") # {})
                 => req'[r].pc = "find_active" /\ sessions' = sessions
          /\ (req[r].op = "join_session" /\ req[r].pc = "find_active"
                  /\ req'[r] # req[r]
                  /\ FindSessions(req[r].code, "active") # {})
                 => req'[r].sid \in FindSessions(req[r].code, "active")
          /\ (Arrives(r, "join_session")
                  /\ FindSessions(req'[r].code, "waiting") = {}
                  /\ FindSessions(req'[r].code, "active") = {})
                 => req'[r].pc = "find_active" /\ sessions' = sessions
          /\ (req[r].op = "join_session" /\ req[r].pc = "find_active"
                  /\ req'[r] # req[r]
                  /\ FindSessions(req[r].code, "active") = {})
                 => Returns(r, 404, "error") /\ sessions' = sessions]_vars

C8_Witness ==
    \E r \in Reqs, i, k \in 1..Len(sessions) :
        /\ req[r].op = "join_session"
        /\ req[r].pc = "done"
        /\ req[r].resp.status = "Joined"
        /\ req[r].resp.session_id = i
        /\ sessions[i].status = "waiting"
        /\ sessions[k].status = "active"
        /\ sessions[k].session_code = sessions[i].session_code
        /\ req[r].code = sessions[i].session_code
        /\ k < i

\* C9: Start, Review and Finish by a caller who is not the teacher of the
\* session, or on no session, return 404 and change no session.
C9_NotOwnerNotFound ==
    [][\A r \in Reqs :
          \A op \in {"start_session", "review_session", "finish_session"} :
              (/\ Arrives(r, op)
               /\ \/ ~Exists(req'[r].sid)
                  \/ sessions[req'[r].sid].teacher_id # req'[r].caller)
                  => Returns(r, 404, "error") /\ sessions' = sessions]_vars

C9_Witness ==
    \E r \in Reqs :
        /\ req[r].op = "start_session"
        /\ req[r].pc = "done"
        /\ req[r].resp.http = 404
        /\ Exists(req[r].sid)
        /\ sessions[req[r].sid].teacher_id # req[r].caller
        /\ sessions[req[r].sid].status = "waiting"
        /\ sessions[req[r].sid].started_at = "None"

\* C10: the save of an accepted correct answer raises the stored score by
\* max(500, 1000 - 10 * time_taken), which is at least 500.
C10_ScoreFloor ==
    [][\A r \in Reqs :
          (/\ req[r].op = "submit_live_answer"
           /\ req[r].pc = "save"
           /\ req'[r].pc = "done"
           /\ req[r].is_correct)
              => LET j == req[r].result.id
                     inc == results'[j].score - results[j].score
                 IN  /\ inc >= 500
                     /\ inc >= 1000 - 10 * req[r].time_taken
                     /\ inc \in {500, 1000 - 10 * req[r].time_taken}
                     /\ req'[r].resp.score = results'[j].score]_vars

C10_Witness ==
    \E r \in Reqs :
        /\ req[r].op = "submit_live_answer"
        /\ req[r].pc = "done"
        /\ req[r].resp.status = "ok"
        /\ req[r].is_correct
        /\ req[r].time_taken = 60
        /\ req[r].resp.score = 1450

\* C11: every accepted submission appends exactly one answer record to the
\* participant's result and raises exactly one counter by one (correct_count
\* when is_correct, otherwise incorrect_count with the score unchanged); the
\* records stored before are kept as they were; the response carries the
\* score as stored; and, with submissions handled one after the other, every
\* result has as many answers as its two counters add up to.
C11_AnswerAppended ==
    /\ [](\A j \in 1..Len(results) :
             Len(results[j].answers)
                 = results[j].correct_count + results[j].incorrect_count)
    /\ [][/\ \A j \in 1..Len(results) :
              /\ Len(results'[j].answers) >= Len(results[j].answers)
              /\ SubSeq(results'[j].answers, 1, Len(results[j].answers))
                     = results[j].answers
          /\ \A r \in Reqs :
                 (req[r].op = "submit_live_answer" /\ req[r].pc = "save"
                      /\ req'[r].pc = "done")
                 => LET j == req[r].result.id IN
                    /\ req'[r].resp.status = "ok"
                    /\ Len(results'[j].answers) = Len(results[j].answers) + 1
                    /\ results'[j].answers[Len(results'[j].answers)]
                           = [card_id |-> req[r].card_id,
                              is_correct |-> req[r].is_correct,
                              time_taken |-> req[r].time_taken]
                    /\ IF req[r].is_correct
                       THEN /\ results'[j].correct_count = results[j].correct_count + 1
                            /\ results'[j].incorrect_count = results[j].incorrect_count
                       ELSE /\ results'[j].incorrect_count = results[j].incorrect_count + 1
                            /\ results'[j].correct_count = results[j].correct_count
                            /\ results'[j].score = results[j].score
                    /\ req'[r].resp.score = results'[j].score
                    /\ \A k \in 1..Len(results) : k # j => results'[k] = results[k]
         ]_vars

\* A participant has answered once correctly and once incorrectly, and the
\* second response carries the stored score.
C11_Witness ==
    \E r \in Reqs, j \in 1..Len(results) :
        /\ req[r].op = "submit_live_answer"
        /\ req[r].pc = "done"
        /\ req[r].resp.status = "ok"
        /\ ~req[r].is_correct
        /\ Len(results[j].answers) = 2
        /\ results[j].correct_count = 1
        /\ results[j].incorrect_count = 1
        /\ results[j].score > 0
        /\ req[r].resp.score = results[j].score

\* ---------------------------------------------------- claims on scheduling
\* Request r is handled in this step with operation op (StudySpec and
\* EaseSpec handle one request per step, and its record stays in req).
Handles(r, op) == req'[r].op = op /\ <<req, studyVars>>' # <<req, studyVars>>

\* An answer is accepted for the item in this step.
Schedules(r) ==
    Handles(r, "answer_card") /\ req'[r].resp.http = 200

\* C12: from a new item (ease factor 2.5) and through any sequence of
\* accepted answers and deck resets, the ease factor of every item, and the
\* one written to every review, is at least 1.3.
C12_EaseFloor ==
    /\ \A c \in 1..Len(cards) : cards[c].ease_factor >= 130
    /\ reviews.count > 0 => reviews.last.ease_factor_after >= 130

\* Seven fails in a row: the seventh would bring 1.3 down to 1.1.
C12_Witness ==
    \E c \in 1..Len(cards) :
        /\ cards[c].times_reviewed = 7
        /\ cards[c].times_incorrect = 7
        /\ cards[c].ease_factor = 130

\* C13: an answer with quality below 3 sets repetitions to 0 and the interval
\* to 1, lowers the ease factor by 0.2 but not below 1.3, adds one to
\* times_incorrect and clears is_learned, whatever the item's state and the
\* deck's learning mode.
C13_FailResets ==
    [][\A r \in Reqs :
          (Schedules(r) /\ req'[r].quality < 3)
          => LET old == cards[req'[r].item]
                 new == cards'[req'[r].item] IN
             /\ new.repetitions = 0
             /\ new.interval = 1
             /\ new.ease_factor = (IF old.ease_factor - 20 < 130 THEN 130
                                   ELSE old.ease_factor - 20)
             /\ new.times_incorrect = old.times_incorrect + 1
             /\ new.times_correct = old.times_correct
             /\ new.is_learned = FALSE
      ]_vars

\* An item of a spaced deck fails right after the three passes that made it
\* learned.
C13_Witness ==
    \E r \in Reqs, c \in 1..Len(cards) :
        /\ req[r].op = "answer_card" /\ req[r].resp.http = 200
        /\ req[r].item = c /\ req[r].quality < 3
        /\ decks[cards[c].deck_id].learning_mode = "spaced"
        /\ cards[c].times_reviewed = 4 /\ cards[c].times_correct = 3
        /\ reviews.last.interval_before >= 7
        /\ cards[c].repetitions = 0 /\ cards[c].interval = 1
        /\ ~cards[c].is_learned

\* C14: a pass adds one to repetitions, a fail and a reset set them to 0, so
\* repetitions count the consecutive passes; the first of them sets the
\* interval to 1, the second to 6, and a later one to the integer nearest to
\* the interval times the ease factor, both as they were before the answer.
C14_IntervalProgression ==
    [][/\ \A r \in Reqs :
             Schedules(r)
             => LET old == cards[req'[r].item]
                    new == cards'[req'[r].item] IN
                IF req'[r].quality >= 3
                THEN /\ new.repetitions = old.repetitions + 1
                     /\ old.repetitions = 0 => new.interval = 1
                     /\ old.repetitions = 1 => new.interval = 6
                     /\ old.repetitions >= 2
                           => /\ 100 * new.interval - old.interval * old.ease_factor <= 50
                              /\ old.interval * old.ease_factor - 100 * new.interval <= 50
                     /\ req'[r].resp.interval = new.interval
                ELSE new.repetitions = 0
       /\ \A r \in Reqs :
             (Handles(r, "reset_deck_progress") /\ req'[r].resp.http = 200)
             => \A c \in 1..Len(cards) :
                   cards[c].deck_id = req'[r].deck => cards'[c].repetitions = 0
       /\ \A c \in 1..Len(cards) :
             cards'[c].repetitions # cards[c].repetitions
             => \E r \in Reqs : req'[r].op \in {"answer_card", "reset_deck_progress"}
      ]_vars

\* The third pass in a row with quality 5: 6 * 2.7 = 16.2 gives 16.
C14_Witness ==
    \E c \in 1..Len(cards) :
        /\ cards[c].times_reviewed = 3
        /\ cards[c].repetitions = 3
        /\ cards[c].interval = 16
        /\ cards[c].ease_factor = 280

\* C15: every accepted answer adds exactly one to times_reviewed, which is
\* then at least 1 (the division has a divisor), and sets difficulty to
\* 1 - times_correct / times_reviewed; in every state the difficulty of every
\* item is between 0 and 1 and times_reviewed = times_correct +
\* times_incorrect.
C15_ReviewCounters ==
    /\ [](\A c \in 1..Len(cards) :
             /\ cards[c].times_reviewed
                    = cards[c].times_correct + cards[c].times_incorrect
             /\ cards[c].difficulty[2] > 0
             /\ cards[c].difficulty[1] >= 0
             /\ cards[c].difficulty[1] <= cards[c].difficulty[2])
    /\ [][\A r \in Reqs :
             Schedules(r)
             => LET old == cards[req'[r].item]
                    new == cards'[req'[r].item] IN
                /\ new.times_reviewed = old.times_reviewed + 1
                /\ new.times_reviewed >= 1
                /\ new.difficulty[2] = new.times_reviewed
                /\ new.difficulty[1] = new.times_reviewed - new.times_correct
                /\ \A c \in 1..Len(cards) : c # req'[r].item => cards'[c] = cards[c]
          ]_vars

\* An item answered once right and once wrong has difficulty 1/2.
C15_Witness ==
    \E c \in 1..Len(cards) :
        /\ cards[c].times_reviewed = 2
        /\ cards[c].times_correct = 1
        /\ cards[c].times_incorrect = 1
        /\ cards[c].difficulty = <<1, 2>>

\* The item has repetitions n, interval i and ease factor e (in hundredths).
ItemAt(card, n, i, e) ==
    card.repetitions = n /\ card.interval = i /\ card.ease_factor = e

\* C16: a new item (repetitions 0, interval 0, ease factor 2.5) answered with
\* quality 4 gets interval 1, repetitions 1, ease factor 2.5 and is no longer
\* new; answered then with 5 it gets interval 6, repetitions 2, ease factor
\* 2.6; answered then with 2 it gets interval 1, repetitions 0, ease factor
\* 2.4.
C16_WorkedSequence ==
    [][\A r \in Reqs :
          Schedules(r)
          => LET old == cards[req'[r].item]
                 new == cards'[req'[r].item] IN
             /\ (ItemAt(old, 0, 0, 250) /\ old.is_new /\ req'[r].quality = 4)
                   => (ItemAt(new, 1, 1, 250) /\ ~new.is_new)
             /\ (ItemAt(old, 1, 1, 250) /\ req'[r].quality = 5)
                   => ItemAt(new, 2, 6, 260)
             /\ (ItemAt(old, 2, 6, 260) /\ req'[r].quality = 2)
                   => ItemAt(new, 0, 1, 240)
      ]_vars

\* The end of the sequence: the third answer, quality 2, on interval 6.
C16_Witness ==
    \E r \in Reqs, c \in 1..Len(cards) :
        /\ req[r].op = "answer_card" /\ req[r].resp.http = 200
        /\ req[r].item = c /\ req[r].quality = 2
        /\ cards[c].times_reviewed = 3 /\ cards[c].times_correct = 2
        /\ reviews.last.interval_before = 6
        /\ ItemAt(cards[c], 0, 1, 240)
        /\ ~cards[c].is_new

\* C17: an answer whose quality is outside 0..5 is refused and leaves the
\* items, the reviews and the day's statistics as they were.
C17_InvalidQualityRejected ==
    [][\A r \in Reqs :
          (Handles(r, "answer_card") /\ req'[r].quality \notin 0..5)
          => /\ req'[r].resp.http >= 400
             /\ UNCHANGED <<cards, reviews, stats>>
      ]_vars

\* C18: in an all_at_once deck every pass makes the item learned; in a spaced
\* deck a learned item has at least 3 repetitions and an interval of at least
\* 7 days.
C18_Learned ==
    /\ [](\A c \in 1..Len(cards) :
             (decks[cards[c].deck_id].learning_mode = "spaced" /\ cards[c].is_learned)
             => (cards[c].repetitions >= 3 /\ cards[c].interval >= 7))
    /\ [][\A r \in Reqs :
             (Schedules(r) /\ req'[r].quality >= 3
                  /\ decks[cards[req'[r].item].deck_id].learning_mode = "all_at_once")
             => cards'[req'[r].item].is_learned
          ]_vars

\* An item of a spaced deck is learned with its third pass in a row.
C18_Witness ==
    \E c \in 1..Len(cards) :
        /\ cards[c].is_learned
        /\ decks[cards[c].deck_id].learning_mode = "spaced"
        /\ cards[c].repetitions = 3
        /\ cards[c].interval >= 7

\* C19: a new item has no repetitions and no last review; every accepted
\* answer makes the item not new; a reset puts every item of the deck back
\* in the state it was created in.
C19_NewAndReset ==
    /\ [](\A c \in 1..Len(cards) :
             cards[c].is_new => (cards[c].repetitions = 0 /\ cards[c].last_review = "None"))
    /\ [][/\ \A r \in Reqs :
                Schedules(r) => ~cards'[req'[r].item].is_new
          /\ \A r \in Reqs :
                (Handles(r, "reset_deck_progress") /\ req'[r].resp.http = 200)
                => \A c \in 1..Len(cards) :
                      IF cards[c].deck_id = req'[r].deck
                      THEN LET new == cards'[c] IN
                           /\ new.is_new /\ ~new.is_learned
                           /\ ItemAt(new, 0, 0, 250)
                           /\ new.times_reviewed = 0 /\ new.times_correct = 0
                           /\ new.times_incorrect = 0
                           /\ new.last_review = "None" /\ new.next_review = <<>>
                      ELSE cards'[c] = cards[c]
          ]_vars

\* A deck of two items is reset after both have been answered.
C19_Witness ==
    \E r \in Reqs :
        /\ req[r].op = "reset_deck_progress" /\ req[r].resp.http = 200
        /\ Len(cards) = 2
        /\ reviews.count = 2
        /\ stats # <<>> /\ stats[1].new_cards_learned = 2
        /\ \A c \in 1..Len(cards) : cards[c].is_new /\ cards[c].last_review = "None"

\* --------------------------------------------------- claims on invitations
\* C20: every invitation whose max_uses is set has uses_count <= max_uses,
\* whatever max_uses the create request was given (0 included) and with
\* redemptions by distinct students interleaving.
C20_UsesWithinLimit ==
    \A j \in 1..Len(invitations) :
        invitations[j].max_uses # <<>>
        => invitations[j].uses_count <= invitations[j].max_uses[1]

\* C21: a redemption reports the first check that fails, in this order: no
\* active invitation with the code (404); expires_at set and not after now
\* (400, expired); max_uses set and uses_count >= max_uses (400, limit).  A
\* redemption that fails leaves the invitations and the accesses unchanged.
C21_RedeemChecksInOrder ==
    [][\A r \in Reqs :
          Arrives(r, "join_deck")
          => /\ UNCHANGED <<invitations, accesses>>
             /\ IF FindInvitations(req'[r].code) = {}
                THEN Returns(r, 404, "error")
                ELSE \E j \in FindInvitations(req'[r].code) :
                        LET inv == invitations[j] IN
                        IF inv.expires_at # <<>> /\ inv.expires_at[1] <= now
                        THEN Returns(r, 400, "expired")
                        ELSE IF inv.max_uses # <<>> /\ inv.uses_count >= inv.max_uses[1]
                        THEN Returns(r, 400, "limit")
                        ELSE req'[r].pc = "find_access"
      ]_vars

\* The students who have an access record for the deck.
StudentsOf(deck) ==
    {accesses[k].student_id : k \in {i \in 1..Len(accesses) : accesses[i].deck_id = deck}}

\* C22: a redemption that passes the checks and finds an access record of the
\* student for the deck returns already_joined and changes neither the
\* accesses nor the invitation; so an invitation's uses_count never exceeds
\* the number of students that have access, and no student is twice in
\* joined_students.
C22_IdempotentRedemption ==
    /\ [](\A j \in 1..Len(invitations) :
             /\ invitations[j].uses_count
                    <= Cardinality(StudentsOf(invitations[j].deck_id))
             /\ \A a, b \in 1..Len(invitations[j].joined_students) :
                    invitations[j].joined_students[a] = invitations[j].joined_students[b]
                    => a = b)
    /\ [][\A r \in Reqs :
             (/\ req[r].op = "join_deck" /\ req[r].pc = "find_access"
              /\ req'[r].pc # "find_access"
              /\ req[r].caller \in StudentsOf(req[r].invitation.deck_id))
             => /\ Returns(r, 200, "already_joined")
                /\ UNCHANGED <<invitations, accesses>>
          ]_vars

\* A student who has joined redeems the code again.
C22_Witness ==
    \E r \in Reqs :
        /\ req[r].op = "join_deck" /\ req[r].pc = "done"
        /\ req[r].resp.status = "already_joined"
        /\ Len(accesses) = 1
        /\ accesses[1].student_id = req[r].caller
        /\ Len(invitations) = 1
        /\ invitations[1].uses_count = 1
        /\ invitations[1].joined_students = <<req[r].caller>>

\* C23: there is at most one active invitation for a deck and teacher, also
\* when two create requests of the teacher for the deck interleave.
C23_OneActiveInvitation ==
    \A i, j \in 1..Len(invitations) :
        (/\ invitations[i].is_active /\ invitations[j].is_active
         /\ invitations[i].deck_id = invitations[j].deck_id
         /\ invitations[i].teacher_id = invitations[j].teacher_id)
        => i = j

\* C24: there is at most one access record for a student and deck, also
\* when two redemptions of the student are handled at the same time.
C24_OneAccessPerStudentDeck ==
    \A i, j \in 1..Len(accesses) :
        (/\ accesses[i].student_id = accesses[j].student_id
         /\ accesses[i].deck_id = accesses[j].deck_id)
        => i = j

\* ------------------------------------------------------ claims on listings
\* A listing is returned to request r in this step.
Lists(r) == Handles(r, "get_my_decks") \/ Handles(r, "get_my_teachers_decks")

\* C25: the status of a deck in the listings follows from the counts of its
\* items in this order: empty when it has none; else mastered when all are
\* learned; else done_for_today when none is due and one at least is learned;
\* else active.  progress is 0 for a deck without items, else learned/total
\* in percent, to the nearest tenth.
C25_ListingStatus ==
    [][\A r \in Reqs :
          Lists(r) =>
              \A i \in DOMAIN req'[r].resp.listing :
                  LET e == req'[r].resp.listing[i] IN
                  /\ e.total_cards = Cardinality(ItemsOf(e.deck_id))
                  /\ e.learned_cards
                         = Cardinality({k \in ItemsOf(e.deck_id) : cards[k].is_learned})
                  /\ e.status = "empty" <=> e.total_cards = 0
                  /\ e.status = "mastered"
                         <=> (e.total_cards > 0 /\ e.learned_cards = e.total_cards)
                  /\ e.status = "done_for_today"
                         <=> (/\ e.total_cards > 0
                              /\ e.learned_cards < e.total_cards
                              /\ e.cards_due = 0
                              /\ e.learned_cards > 0)
                  /\ e.status \in {"empty", "mastered", "done_for_today", "active"}
                  /\ e.total_cards = 0 => e.progress = 0
                  /\ e.total_cards > 0 =>
                         /\ 2 * (e.progress * e.total_cards - e.learned_cards * 1000)
                                <= e.total_cards
                         /\ 2 * (e.learned_cards * 1000 - e.progress * e.total_cards)
                                <= e.total_cards]_vars

\* The owner's listing shows a deck of two items, one learned and none due.
C25_Witness ==
    \E r \in Reqs :
        /\ req[r].op = "get_my_decks" /\ req[r].pc = "done"
        /\ Len(req[r].resp.listing) = 1
        /\ req[r].resp.listing[1].status = "done_for_today"
        /\ req[r].resp.listing[1].total_cards = 2
        /\ req[r].resp.listing[1].learned_cards = 1
        /\ req[r].resp.listing[1].progress = 500

\* C26: cards_due of a listing counts exactly the items that are new and
\* unlocked by now, or not new, not learned and with their next review not
\* after now; a learned item is never counted.
C26_DueCount ==
    [][\A r \in Reqs :
          Lists(r) =>
              \A i \in DOMAIN req'[r].resp.listing :
                  LET e == req'[r].resp.listing[i] IN
                  e.cards_due
                      = Cardinality(
                            {k \in ItemsOf(e.deck_id) :
                                \/ cards[k].is_new /\ cards[k].unlock_date <= now
                                \/ /\ ~cards[k].is_new
                                   /\ ~cards[k].is_learned
                                   /\ cards[k].next_review # <<>>
                                   /\ cards[k].next_review[1] <= now})]_vars

\* C27: the learning mode of a deck is the one it was created with: no
\* request (update, detail, answer, reset) changes it.
C27_LearningModeFixed ==
    [][\A d \in 1..Len(decks) :
          decks'[d].learning_mode = decks[d].learning_mode]_vars

C29_NoLostRosterEntry ==
    /\ [](\A r \in Reqs :
              (/\ req[r].op = "join_session"
               /\ req[r].pc = "done"
               /\ req[r].resp.http = 200)
                  => req[r].nickname \in Roster(sessions[req[r].sid]))
    /\ [][/\ \A i \in 1..Len(sessions) :
                 Roster(sessions[i]) \subseteq Roster(sessions'[i])
          /\ \A r \in Reqs :
                 (/\ req[r].op = "join_session"
                  /\ req[r].pc = "save"
                  /\ req'[r].pc = "done")
                     => sessions'[req[r].sid].status = sessions[req[r].sid].status]_vars

\* C30: the detail of a deck and the owner's listing agree on its status:
\* the status get_deck returns is the one get_my_decks reports for the deck
\* at that moment, whatever the items and the learning mode of the deck.
C30_DetailAgreesWithListing ==
    [][\A r \in Reqs :
          (Handles(r, "get_deck") /\ req'[r].resp.http = 200) =>
              \A l \in MyDecks(decks[req'[r].deck].user_id) :
                  \A i \in DOMAIN l :
                      l[i].deck_id = req'[r].deck
                          => l[i].status = req'[r].resp.status]_vars

====
